---- MODULE Spec2Model ----
(***************************************************************************)
(* A model of src/src/vec3.rs: the generic three-component vector Vec3<T>, *)
(* its component-wise operators and its two equality policies (tolerance   *)
(* equality for the floating-point kinds, binary equality for the integer  *)
(* kinds).                                                                 *)
(*                                                                         *)
(* Scalar kinds.  The macros at the end of vec3.rs instantiate the integer *)
(* policy for i8 .. usize and the float policy for f32, f64.  The model    *)
(* carries one signed kind ("i8"), one unsigned kind ("u8") and one float  *)
(* kind ("f64").  Integers keep the 8-bit width.  Integer overflow of      *)
(* + - * panics when the build has overflow checks and wraps otherwise;    *)
(* the variable `checks` is that build setting.  Division by zero and      *)
(* MIN / -1 panic in every build.                                          *)
(*                                                                         *)
(* Floats are records: [k |-> "nan"], [k |-> "inf", n |-> +1 / -1] or      *)
(* [k |-> "fin", n |-> g] for the finite value g grid steps from zero.     *)
(* Finite results of * and / are rounded to the grid.                      *)
(***************************************************************************)
EXTENDS Integers, FiniteSets, Sequences, TLC

VARIABLES kind, checks, a, b, c, abs_tol, op, res

vars == <<kind, checks, a, b, c, abs_tol, op, res>>

(* ------------------------------ bounds -------------------------------- *)

\* integer operands of the arithmetic runs: MIN, MAX and -1 .. IntSpan
IntSpan == 1
\* finite float operands of the arithmetic runs: 2*i grid steps, i in 0 .. FloatSpan
FloatSpan == 1
\* integer operands of the equality runs: -1 (signed) and 0 .. EqSpan
EqSpan == 1
\* finite float operands of the equality runs: 2*i grid steps, i in 0 .. EqFloatSpan
EqFloatSpan == 2
\* tolerances handed to almost_equal: 0 .. TolSpan grid steps
TolSpan == 2

(* ---------------------------- scalar kinds ---------------------------- *)

Bits == 8

IntKinds == {"i8", "u8"}

FloatKinds == {"f64"}

Kinds == IntKinds \cup FloatKinds

IsFloat(k) == k \in FloatKinds

IMin(k) == IF k = "i8" THEN -(2 ^ (Bits - 1)) ELSE 0

IMax(k) == IF k = "i8" THEN (2 ^ (Bits - 1)) - 1 ELSE (2 ^ Bits) - 1

InRange(k, n) == IMin(k) <= n /\ n <= IMax(k)

\* two's-complement wrap of the exact result n into kind k
Wrap(k, n) == ((n - IMin(k)) % (2 ^ Bits)) + IMin(k)

Abs(n) == IF n < 0 THEN -n ELSE n

(* ------------------------------ floats -------------------------------- *)

NaN == [k |-> "nan", n |-> 0]

Inf(s) == [k |-> "inf", n |-> s]

Fin(g) == [k |-> "fin", n |-> g]

IsNaN(u) == u.k = "nan"

IsFin(u) == u.k = "fin"

Sign(n) == IF n < 0 THEN -1 ELSE 1

\* the fixed epsilon of eq::equal, in grid steps
EPSILON == 3

\* 1.0 in grid steps
FOne == 4 * EPSILON

\* n / d rounded to the nearest integer, ties away from zero (d # 0)
RoundDiv(n, d) ==
  LET q == (2 * Abs(n) + Abs(d)) \div (2 * Abs(d))
  IN  IF (n < 0) # (d < 0) THEN -q ELSE q

FAdd(u, v) ==
  IF IsNaN(u) \/ IsNaN(v) THEN NaN
  ELSE IF u.k = "inf" /\ v.k = "inf" THEN (IF u.n = v.n THEN u ELSE NaN)
  ELSE IF u.k = "inf" THEN u
  ELSE IF v.k = "inf" THEN v
  ELSE Fin(u.n + v.n)

FNeg(u) == IF IsNaN(u) THEN NaN ELSE [k |-> u.k, n |-> -u.n]

FSub(u, v) == FAdd(u, FNeg(v))

FMul(u, v) ==
  IF IsNaN(u) \/ IsNaN(v) THEN NaN
  ELSE IF u.k = "inf" \/ v.k = "inf"
       THEN (IF u.n = 0 \/ v.n = 0 THEN NaN ELSE Inf(Sign(u.n) * Sign(v.n)))
  ELSE Fin(RoundDiv(u.n * v.n, FOne))

FDiv(u, v) ==
  IF IsNaN(u) \/ IsNaN(v) THEN NaN
  ELSE IF u.k = "inf" /\ v.k = "inf" THEN NaN
  ELSE IF u.k = "inf" THEN Inf(u.n * Sign(v.n))
  ELSE IF v.k = "inf" THEN Fin(0)
  ELSE IF v.n = 0 THEN (IF u.n = 0 THEN NaN ELSE Inf(Sign(u.n)))
  ELSE Fin(RoundDiv(u.n * FOne, v.n))

\* |u - v| <= tol in IEEE arithmetic: false as soon as a NaN is involved
\* (inf - inf is NaN, and every comparison with NaN is false)
almost_equal(u, v, tol) ==
  LET d == FSub(u, v)
  IN  /\ IsFin(d)
      /\ IsFin(tol)
      /\ Abs(d.n) <= tol.n

equal(u, v) == almost_equal(u, v, Fin(EPSILON))

(* ------------------------- scalar operators --------------------------- *)

Ok(v) == [ok |-> TRUE, v |-> v]

\* the scalar operator panicked: there is no value
Panic == [ok |-> FALSE, v |-> 0]

\* an exact integer result n in kind k: kept, or overflowed
Overflow(k, chk, n) ==
  IF InRange(k, n) THEN Ok(n)
  ELSE IF chk THEN Panic
  ELSE Ok(Wrap(k, n))

ScalarAdd(k, chk, x, y) ==
  IF IsFloat(k) THEN Ok(FAdd(x, y)) ELSE Overflow(k, chk, x + y)

ScalarSub(k, chk, x, y) ==
  IF IsFloat(k) THEN Ok(FSub(x, y)) ELSE Overflow(k, chk, x - y)

ScalarMul(k, chk, x, y) ==
  IF IsFloat(k) THEN Ok(FMul(x, y)) ELSE Overflow(k, chk, x * y)

\* integer quotient rounded toward zero (y # 0)
TruncDiv(x, y) ==
  LET q == Abs(x) \div Abs(y)
  IN  IF (x < 0) # (y < 0) THEN -q ELSE q

ScalarDiv(k, chk, x, y) ==
  IF IsFloat(k) THEN Ok(FDiv(x, y))
  ELSE IF y = 0 THEN Panic
  ELSE IF ~InRange(k, TruncDiv(x, y)) THEN Panic
  ELSE Ok(TruncDiv(x, y))

ScalarZero(k) == IF IsFloat(k) THEN Fin(0) ELSE 0

ScalarOne(k) == IF IsFloat(k) THEN Fin(FOne) ELSE 1

(* ------------------------------ Vec3<T> ------------------------------- *)

new(x, y, z) == [x |-> x, y |-> y, z |-> z]

\* faulty variant of one: the last component is left zero
one_zero_z(k) == new(ScalarOne(k), ScalarOne(k), ScalarZero(k))

one(k) == new(ScalarOne(k), ScalarOne(k), ScalarOne(k))

\* faulty variant of zero: the last component is one
zero_one_z(k) == new(ScalarZero(k), ScalarZero(k), ScalarOne(k))

zero(k) == new(ScalarZero(k), ScalarZero(k), ScalarZero(k))

\* the struct literal of an operator: the three component expressions are
\* evaluated in order, and a panic in one of them leaves no vector
Build(k, x, y, z) ==
  IF x.ok /\ y.ok /\ z.ok
  THEN [tag |-> "vec", v |-> new(x.v, y.v, z.v), t |-> FALSE]
  ELSE [tag |-> "panic", v |-> new(ScalarZero(k), ScalarZero(k), ScalarZero(k)), t |-> FALSE]

\* faulty variant of add: the last component adds self.z to itself
add_self_z(k, chk, self, rhs) ==
  Build(k, ScalarAdd(k, chk, self.x, rhs.x),
        ScalarAdd(k, chk, self.y, rhs.y),
        ScalarAdd(k, chk, self.z, self.z))

add(k, chk, self, rhs) ==
  Build(k, ScalarAdd(k, chk, self.x, rhs.x),
        ScalarAdd(k, chk, self.y, rhs.y),
        ScalarAdd(k, chk, self.z, rhs.z))

\* faulty variant of sub: the last component subtracts rhs.y
sub_rhs_y(k, chk, self, rhs) ==
  Build(k, ScalarSub(k, chk, self.x, rhs.x),
        ScalarSub(k, chk, self.y, rhs.y),
        ScalarSub(k, chk, self.z, rhs.y))

sub(k, chk, self, rhs) ==
  Build(k, ScalarSub(k, chk, self.x, rhs.x),
        ScalarSub(k, chk, self.y, rhs.y),
        ScalarSub(k, chk, self.z, rhs.z))

mul(k, chk, self, rhs) ==
  Build(k, ScalarMul(k, chk, self.x, rhs.x),
        ScalarMul(k, chk, self.y, rhs.y),
        ScalarMul(k, chk, self.z, rhs.z))

\* faulty variant of div: the middle component divides by rhs.x
div_rhs_x(k, chk, self, rhs) ==
  Build(k, ScalarDiv(k, chk, self.x, rhs.x),
        ScalarDiv(k, chk, self.y, rhs.x),
        ScalarDiv(k, chk, self.z, rhs.z))

\* faulty variant of div: an integer component whose divisor is zero is set to zero
div_guarded(k, chk, self, rhs) ==
  LET q(x, y) == IF ~IsFloat(k) /\ y = 0 THEN Ok(0) ELSE ScalarDiv(k, chk, x, y)
  IN  Build(k, q(self.x, rhs.x), q(self.y, rhs.y), q(self.z, rhs.z))

div(k, chk, self, rhs) ==
  Build(k, ScalarDiv(k, chk, self.x, rhs.x),
        ScalarDiv(k, chk, self.y, rhs.y),
        ScalarDiv(k, chk, self.z, rhs.z))

\* faulty variant of almost_equal: the last component pair is not compared
Vec3_almost_equal_xy(self, other, tol) ==
  /\ almost_equal(self.x, other.x, tol)
  /\ almost_equal(self.y, other.y, tol)

Vec3_almost_equal(self, other, tol) ==
  /\ almost_equal(self.x, other.x, tol)
  /\ almost_equal(self.y, other.y, tol)
  /\ almost_equal(self.z, other.z, tol)

\* faulty variant of the float eq: self.z is compared with rhs.y
eq_floats_rhs_y(self, rhs) ==
  /\ equal(self.x, rhs.x)
  /\ equal(self.y, rhs.y)
  /\ equal(self.z, rhs.y)

eq_floats(self, rhs) ==
  /\ equal(self.x, rhs.x)
  /\ equal(self.y, rhs.y)
  /\ equal(self.z, rhs.z)

\* faulty variant of the integer eq: components one apart pass as equal
eq_ints_tol(self, rhs) ==
  /\ Abs(self.x - rhs.x) <= 1
  /\ Abs(self.y - rhs.y) <= 1
  /\ Abs(self.z - rhs.z) <= 1

eq_ints(self, rhs) ==
  /\ self.x = rhs.x
  /\ self.y = rhs.y
  /\ self.z = rhs.z

\* the impl of PartialEq the compiler binds for kind k
eq(k, self, rhs) == IF IsFloat(k) THEN eq_floats(self, rhs) ELSE eq_ints(self, rhs)

\* faulty variant of is_zero: the vector is compared with one()
is_zero_one(k, self) == eq(k, self, one(k))

is_zero(k, self) == eq(k, self, zero(k))

(* ----------------------------- operands ------------------------------- *)

IntSamples(k) ==
  IF k = "i8" THEN {IMin(k), IMax(k)} \cup (-1 .. IntSpan)
  ELSE {IMax(k)} \cup (0 .. IntSpan)

FloatSamples == {NaN, Fin(FOne)} \cup {Fin(2 * i) : i \in 0 .. FloatSpan}

Samples(k) == IF IsFloat(k) THEN FloatSamples ELSE IntSamples(k)

EqSamples(k) ==
  IF IsFloat(k) THEN {NaN} \cup {Fin(2 * i) : i \in 0 .. EqFloatSpan}
  ELSE IF k = "i8" THEN -1 .. EqSpan
  ELSE 0 .. EqSpan

Vecs(S) == {new(x, y, z) : x \in S, y \in S, z \in S}

\* the operands of the examples in the doc comments of add, sub, mul and div
DocPairs ==
  { <<new(1, 2, 3), new(4, 5, 6)>>, <<new(4, 5, 9), new(1, 2, 3)>> }

Tols == {Fin(i) : i \in 0 .. TolSpan}

(* --------------------------- state machine ---------------------------- *)

NoRes(k) == [tag |-> "none", v |-> zero(k), t |-> FALSE]

BoolRes(k, t) == [tag |-> "bool", v |-> zero(k), t |-> t]

\* two operands of one kind, built with new
Init ==
  /\ kind \in Kinds
  /\ checks \in (IF IsFloat(kind) THEN {FALSE} ELSE BOOLEAN)
  /\ \/ /\ a \in Vecs(Samples(kind))
        /\ b \in Vecs(Samples(kind))
     \/ /\ ~IsFloat(kind)
        /\ \E p \in DocPairs : a = p[1] /\ b = p[2]
  /\ c = a
  /\ abs_tol = Fin(0)
  /\ op = "new"
  /\ res = NoRes(kind)

\* three operands of one kind, built with new
InitEq ==
  /\ kind \in Kinds
  /\ checks = FALSE
  /\ a \in Vecs(EqSamples(kind))
  /\ b \in Vecs(EqSamples(kind))
  /\ c \in Vecs(EqSamples(kind))
  /\ abs_tol = Fin(0)
  /\ op = "new"
  /\ res = NoRes(kind)

Add ==
  /\ op = "new"
  /\ op' = "add"
  /\ res' = add(kind, checks, a, b)
  /\ UNCHANGED <<kind, checks, a, b, c, abs_tol>>

Sub ==
  /\ op = "new"
  /\ op' = "sub"
  /\ res' = sub(kind, checks, a, b)
  /\ UNCHANGED <<kind, checks, a, b, c, abs_tol>>

Mul ==
  /\ op = "new"
  /\ op' = "mul"
  /\ res' = mul(kind, checks, a, b)
  /\ UNCHANGED <<kind, checks, a, b, c, abs_tol>>

Div ==
  /\ op = "new"
  /\ op' = "div"
  /\ res' = div(kind, checks, a, b)
  /\ UNCHANGED <<kind, checks, a, b, c, abs_tol>>

Eq ==
  /\ op = "new"
  /\ op' = "eq"
  /\ res' = BoolRes(kind, eq(kind, a, b))
  /\ UNCHANGED <<kind, checks, a, b, c, abs_tol>>

IsZero ==
  /\ op = "new"
  /\ op' = "is_zero"
  /\ res' = BoolRes(kind, is_zero(kind, a))
  /\ UNCHANGED <<kind, checks, a, b, c, abs_tol>>

AlmostEqual ==
  /\ op = "new"
  /\ IsFloat(kind)
  /\ \E tol \in Tols :
       /\ abs_tol' = tol
       /\ res' = BoolRes(kind, Vec3_almost_equal(a, b, tol))
  /\ op' = "almost_equal"
  /\ UNCHANGED <<kind, checks, a, b, c>>

Next == Add \/ Sub \/ Mul \/ Div \/ IsZero \/ AlmostEqual

NextEq == Eq

Spec == Init /\ [][Next]_vars

SpecEq == InitEq /\ [][NextEq]_vars

(* ------------------------------ helpers ------------------------------- *)

Arith == {"add", "sub", "mul", "div"}

IsInt == kind \in IntKinds

AllFin(v) == IsFin(v.x) /\ IsFin(v.y) /\ IsFin(v.z)

HasNaN(v) == IsNaN(v.x) \/ IsNaN(v.y) \/ IsNaN(v.z)

\* the exact integer result of + - * on x and y
Exact(o, x, y) ==
  IF o = "add" THEN x + y ELSE IF o = "sub" THEN x - y ELSE x * y

\* what the scalar + - * of kind k leaves for x and y when it leaves a value
Expected(k, o, x, y) ==
  IF InRange(k, Exact(o, x, y)) THEN Exact(o, x, y) ELSE Wrap(k, Exact(o, x, y))

\* q is x / y rounded toward zero: the remainder is smaller than the divisor
\* and is zero or has the sign of the dividend
IsTruncQuot(q, x, y) ==
  LET r == x - q * y
  IN  /\ Abs(r) < Abs(y)
      /\ (r = 0 \/ ((r < 0) = (x < 0)))

\* the scalar operator o of the current kind fails on x and y
ScalarFails(o, x, y) ==
  /\ IsInt
  /\ IF o = "div"
     THEN y = 0 \/ (kind = "i8" /\ x = IMin(kind) /\ y = -1)
     ELSE checks /\ ~InRange(kind, Exact(o, x, y))

\* u and v are finite and differ by no more than tol grid steps
Within(u, v, tol) == IsFin(u) /\ IsFin(v) /\ Abs(u.n - v.n) <= tol

(* ------------------------------- claims ------------------------------- *)

\* C1: for integer kinds and op in {+, -, *}, each component of the result
\* of a op b is the scalar op of the two components at the same position
\* (the exact result, or its wrap in a build without overflow checks), e.g.
\* (1,2,3)+(4,5,6) = (5,7,9), (1,2,3)-(4,5,6) = (-3,-3,-3),
\* (1,2,3)*(4,5,6) = (4,10,18).
C1_Componentwise ==
  (IsInt /\ op \in {"add", "sub", "mul"} /\ res.tag = "vec") =>
    /\ res.v.x = Expected(kind, op, a.x, b.x)
    /\ res.v.y = Expected(kind, op, a.y, b.y)
    /\ res.v.z = Expected(kind, op, a.z, b.z)
    /\ (kind = "i8" /\ a = new(1, 2, 3) /\ b = new(4, 5, 6)) =>
         res.v = (IF op = "add" THEN new(5, 7, 9)
                  ELSE IF op = "sub" THEN new(-3, -3, -3)
                  ELSE new(4, 10, 18))

C1_Witness ==
  /\ kind = "i8"
  /\ op = "sub"
  /\ a = new(1, 2, 3)
  /\ b = new(4, 5, 6)
  /\ res.tag = "vec"
  /\ res.v = new(-3, -3, -3)

\* C2: for integer kinds a == b is true exactly when the three component
\* pairs are identical, and == is reflexive, symmetric and transitive.
C2_ExactEquivalence ==
  (IsInt /\ op = "eq") =>
    /\ res.t = (a.x = b.x /\ a.y = b.y /\ a.z = b.z)
    /\ eq(kind, a, a)
    /\ res.t = eq(kind, b, a)
    /\ (res.t /\ eq(kind, b, c)) => eq(kind, a, c)

C2_Witness ==
  /\ IsInt
  /\ op = "eq"
  /\ res.t
  /\ eq(kind, b, c)
  /\ eq(kind, a, c)
  /\ a.x # a.y

\* C3 as stated: zero().is_zero() is true, and is_zero() is false for every
\* vector with at least one nonzero component, in every scalar kind.
C3_Original ==
  (op = "is_zero") =>
    /\ (a = zero(kind)) => res.t
    /\ (a.x # ScalarZero(kind) \/ a.y # ScalarZero(kind) \/ a.z # ScalarZero(kind))
         => ~res.t

\* C3 amended: zero().is_zero() is true; for integer kinds is_zero() is false
\* for every vector with a nonzero component; for float kinds is_zero() is
\* true exactly when every component is finite and within EPSILON of zero, so
\* a vector with a small nonzero component is reported zero.
C3_ZeroDetection ==
  (op = "is_zero") =>
    /\ res.t = eq(kind, a, zero(kind))
    /\ (a = zero(kind)) => res.t
    /\ IsInt => (res.t = (a.x = 0 /\ a.y = 0 /\ a.z = 0))
    /\ IsFloat(kind) =>
         (res.t = (/\ Within(a.x, Fin(0), EPSILON)
                   /\ Within(a.y, Fin(0), EPSILON)
                   /\ Within(a.z, Fin(0), EPSILON)))

C3_Witness ==
  /\ IsFloat(kind)
  /\ op = "is_zero"
  /\ a.x # Fin(0)
  /\ IsFin(a.x)
  /\ res.t

C5_Commutativity ==
  (IsInt /\ op \in {"add", "mul"}) =>
    LET other == IF op = "add" THEN add(kind, checks, b, a)
                 ELSE mul(kind, checks, b, a)
    IN  /\ res.tag = other.tag
        /\ (res.tag = "vec") => eq(kind, res.v, other.v)

C5_Witness ==
  /\ kind = "i8"
  /\ op = "mul"
  /\ ~checks
  /\ a.x = IMax(kind)
  /\ b.x = IMax(kind)
  /\ a.z # b.z
  /\ res.tag = "vec"
  /\ res.v.x = 1

C8_Original ==
  (IsInt /\ op = "div" /\ b.x # 0 /\ b.y # 0 /\ b.z # 0) =>
    /\ res.tag = "vec"
    /\ IsTruncQuot(res.v.x, a.x, b.x)
    /\ IsTruncQuot(res.v.y, a.y, b.y)
    /\ IsTruncQuot(res.v.z, a.z, b.z)

\* C8 amended: for integer kinds, whenever every component of b is nonzero
\* and no component pair is (MIN, -1) of a signed kind, a / b is the vector
\* of the per-component quotients rounded toward zero, e.g.
\* (4,5,9) / (1,2,3) = (4,2,3); with a pair (MIN, -1) the division fails.
C8_TruncatedDivision ==
  (IsInt /\ op = "div" /\ b.x # 0 /\ b.y # 0 /\ b.z # 0) =>
    IF \/ ScalarFails("div", a.x, b.x)
       \/ ScalarFails("div", a.y, b.y)
       \/ ScalarFails("div", a.z, b.z)
    THEN res.tag = "panic"
    ELSE /\ res.tag = "vec"
         /\ IsTruncQuot(res.v.x, a.x, b.x)
         /\ IsTruncQuot(res.v.y, a.y, b.y)
         /\ IsTruncQuot(res.v.z, a.z, b.z)
         /\ (a = new(4, 5, 9) /\ b = new(1, 2, 3)) => res.v = new(4, 2, 3)

\* a negative dividend whose quotient is rounded up, toward zero
C8_Witness ==
  /\ kind = "i8"
  /\ op = "div"
  /\ a.x = -1
  /\ b.x = IMax(kind)
  /\ b.y # 0
  /\ b.z # 0
  /\ res.tag = "vec"
  /\ res.v.x = 0

\* C9: almost_equal(a, b, abs_tol) on float vectors is true exactly when
\* all three component pairs differ by no more than abs_tol; one pair that
\* differs by more makes it false whatever the other two are.
C9_AlmostEqual ==
  (IsFloat(kind) /\ op = "almost_equal") =>
    /\ res.t = (/\ Within(a.x, b.x, abs_tol.n)
                /\ Within(a.y, b.y, abs_tol.n)
                /\ Within(a.z, b.z, abs_tol.n))
    /\ (\/ (AllFin(a) /\ AllFin(b) /\ Abs(a.x.n - b.x.n) > abs_tol.n)
        \/ (AllFin(a) /\ AllFin(b) /\ Abs(a.y.n - b.y.n) > abs_tol.n)
        \/ (AllFin(a) /\ AllFin(b) /\ Abs(a.z.n - b.z.n) > abs_tol.n)) => ~res.t

\* two pairs are identical and the third differs by more than the tolerance
C9_Witness ==
  /\ IsFloat(kind)
  /\ op = "almost_equal"
  /\ AllFin(a)
  /\ AllFin(b)
  /\ a.x = b.x
  /\ a.y = b.y
  /\ Abs(a.z.n - b.z.n) > abs_tol.n
  /\ abs_tol.n > 0
  /\ ~res.t

\* C10: an arithmetic operation fails exactly when the scalar operator fails
\* on at least one of the three component pairs, and then leaves no vector;
\* otherwise it leaves one.
C10_FailureIsScalarFailure ==
  (op \in Arith) =>
    /\ res.tag \in {"vec", "panic"}
    /\ (res.tag = "panic") =
         (\/ ScalarFails(op, a.x, b.x)
          \/ ScalarFails(op, a.y, b.y)
          \/ ScalarFails(op, a.z, b.z))

\* only the middle divisor is zero
C10_Witness ==
  /\ IsInt
  /\ op = "div"
  /\ b.x # 0
  /\ b.y = 0
  /\ b.z # 0
  /\ res.tag = "panic"

====
